---- MODULE Spec2Model ----
(***************************************************************************)
(* Model of the Instagram post viewer (component InstagramViewer).         *)
(*                                                                         *)
(* Text is a sequence of one-character strings, so that case folding,      *)
(* substring search, trimming, quote replacement and parsing are computed  *)
(* character by character, as the JavaScript built-ins compute them.       *)
(* A field that is absent from a row (JavaScript undefined) is the         *)
(* one-element sequence Undefined, whose element is no character.          *)
(***************************************************************************)
EXTENDS Integers, Sequences, FiniteSets, TLC

VARIABLES
    posts,            \* useState<InstagramPost[]>  (the dataset)
    searchTerm,       \* useState<string>
    isHashtagSearch,  \* useState<boolean>
    searchResults,    \* useState<InstagramPost[]>  (the displayed list)
    inflight,         \* Papa.parse calls started whose callback has not fired
    loads,            \* number of Papa.parse calls started so far
    lastOp,           \* the handler that ran last, and how it ended
    completed,        \* the loads whose complete callback fired, in that order
    source            \* SpecLoad only: the rows of the one file that is read

vars == <<posts, searchTerm, isHashtagSearch, searchResults,
          inflight, loads, lastOp, completed, source>>

-----------------------------------------------------------------------------
(* Bounds of the model *)

MaxRows == 2       \* rows per source file
MaxLoads == 2      \* file selections per session
MaxDescLen == 5    \* characters of a generated description
MaxNumLen == 3     \* characters of a generated likes / num_comments text

-----------------------------------------------------------------------------
(* Characters and strings *)

Undefined == <<"undefined">>

Lowers == {"a", "b", "c"}
Uppers == {"A", "B", "C"}
Digits == {"0", "1", "2", "3", "4", "5", "6", "7", "8", "9"}

\* \s of the regular expression, and what String.prototype.trim removes
IsSpace(c) == c \in {" ", "\n", "\t", "\r"}

\* \w of the regular expression: [A-Za-z0-9_]
IsWord(c) == c \in Lowers \cup Uppers \cup Digits \cup {"_"}

DigitVal(c) ==
    CASE c = "0" -> 0 [] c = "1" -> 1 [] c = "2" -> 2 [] c = "3" -> 3
      [] c = "4" -> 4 [] c = "5" -> 5 [] c = "6" -> 6 [] c = "7" -> 7
      [] c = "8" -> 8 [] c = "9" -> 9

DigitChar(n) ==
    CASE n = 0 -> "0" [] n = 1 -> "1" [] n = 2 -> "2" [] n = 3 -> "3"
      [] n = 4 -> "4" [] n = 5 -> "5" [] n = 6 -> "6" [] n = 7 -> "7"
      [] n = 8 -> "8" [] n = 9 -> "9"

LowerChar(c) ==
    CASE c = "A" -> "a" [] c = "B" -> "b" [] c = "C" -> "c" [] OTHER -> c

\* String.prototype.toLowerCase
toLowerCase(s) == [i \in 1..Len(s) |-> LowerChar(s[i])]

\* String.prototype.includes
includes(s, needle) ==
    \E i \in 0..(Len(s) - Len(needle)) : SubSeq(s, i + 1, i + Len(needle)) = needle

RECURSIVE TrimStart(_)
TrimStart(s) ==
    IF s # <<>> /\ IsSpace(Head(s)) THEN TrimStart(Tail(s)) ELSE s

RECURSIVE TrimEnd(_)
TrimEnd(s) ==
    IF s # <<>> /\ IsSpace(s[Len(s)]) THEN TrimEnd(SubSeq(s, 1, Len(s) - 1)) ELSE s

\* String.prototype.trim
trim(s) == TrimEnd(TrimStart(s))

\* String.prototype.slice(0, end) for 0 <= end <= length
slice0(s, end) == SubSeq(s, 1, end)

\* str.replace(/'/g, '"'): every single quote becomes a double quote
replaceQuotes(s) == [i \in 1..Len(s) |-> IF s[i] = "'" THEN "\"" ELSE s[i]]

\* str.replace('#', ''): a string pattern replaces its FIRST occurrence only,
\* wherever it stands
RECURSIVE replaceHash(_)
replaceHash(s) ==
    IF s = <<>> THEN <<>>
    ELSE IF Head(s) = "#" THEN Tail(s)
    ELSE <<Head(s)>> \o replaceHash(Tail(s))

\* JavaScript truthiness of an optional string: undefined and '' are falsy
TruthyStr(s) == s # Undefined /\ s # <<>>

-----------------------------------------------------------------------------
(* cleanDescription *)

\* text.search(/\s#\w+/) scanning from the 0-based index i: the index of the
\* leftmost match (a whitespace character, '#', one word character), else -1
RECURSIVE searchFrom(_, _)
searchFrom(text, i) ==
    IF i + 3 > Len(text) THEN -1
    ELSE IF IsSpace(text[i + 1]) /\ text[i + 2] = "#" /\ IsWord(text[i + 3]) THEN i
    ELSE searchFrom(text, i + 1)

cleanDescription_NoTrim(text) ==
    IF text = <<>> THEN <<>>
    ELSE LET hashtagIndex == searchFrom(text, 0)
         IN  IF hashtagIndex > -1 THEN slice0(text, hashtagIndex) ELSE text

cleanDescription(text) ==
    IF text = <<>> THEN <<>>
    ELSE LET hashtagIndex == searchFrom(text, 0)
         IN  IF hashtagIndex > -1 THEN trim(slice0(text, hashtagIndex)) ELSE trim(text)

\* cleanDescription(post.description || '')
descriptionOrEmpty(d) == IF TruthyStr(d) THEN d ELSE <<>>

-----------------------------------------------------------------------------
(* Number(...) || 0 *)

\* A JavaScript number: NaN, or the decimal fraction num / den with den a
\* power of ten and no common factor ten left
NaN == [nan |-> TRUE, num |-> 0, den |-> 1]
Num(n) == [nan |-> FALSE, num |-> n, den |-> 1]

RECURSIVE Reduce(_, _)
Reduce(n, d) ==
    IF d > 1 /\ n % 10 = 0 THEN Reduce(n \div 10, d \div 10)
    ELSE [nan |-> FALSE, num |-> n, den |-> d]

RECURSIVE Pow10(_)
Pow10(k) == IF k = 0 THEN 1 ELSE 10 * Pow10(k - 1)

AllDigits(s) == \A i \in 1..Len(s) : s[i] \in Digits

RECURSIVE DigitsVal(_)
DigitsVal(s) ==
    IF s = <<>> THEN 0 ELSE 10 * DigitsVal(SubSeq(s, 1, Len(s) - 1)) + DigitVal(s[Len(s)])

\* first index at or after j that holds no digit
RECURSIVE DigitsEnd(_, _)
DigitsEnd(s, j) == IF j <= Len(s) /\ s[j] \in Digits THEN DigitsEnd(s, j + 1) ELSE j

\* Number(value) of an optional string (StringToNumber): undefined is NaN,
\* white space is stripped, the empty text is 0, then an optional sign and a
\* decimal literal (digits, digits., digits.digits, .digits); anything else is
\* NaN.  Exponents, Infinity and 0x/0o/0b literals use characters the model's
\* numeric texts do not contain.
Number(x) ==
    IF x = Undefined THEN NaN
    ELSE LET s == trim(x)
             signed == s # <<>> /\ Head(s) \in {"+", "-"}
             sign == IF s # <<>> /\ Head(s) = "-" THEN -1 ELSE 1
             body == IF signed THEN Tail(s) ELSE s
             dot == DigitsEnd(body, 1)
             ip == SubSeq(body, 1, dot - 1)
             fp == SubSeq(body, dot + 1, Len(body))
         IN  IF s = <<>> THEN Num(0)
             ELSE IF dot > Len(body)
                  THEN (IF ip = <<>> THEN NaN ELSE Num(sign * DigitsVal(ip)))
             ELSE IF body[dot] = "." /\ AllDigits(fp) /\ Len(ip) + Len(fp) > 0
                  THEN Reduce(sign * (DigitsVal(ip) * Pow10(Len(fp)) + DigitsVal(fp)),
                              Pow10(Len(fp)))
             ELSE NaN

coerceCount_NoDefault(x) == Number(x)

\* Number(post.likes) || 0: NaN and 0 are falsy
coerceCount(x) ==
    LET n == Number(x) IN IF n.nan \/ n.num = 0 THEN Num(0) ELSE n

-----------------------------------------------------------------------------
(* tryParseJSON *)

\* A JavaScript value as JSON.parse returns it.  t is its type; s the text of
\* a string, n the value of a number, a the elements of an array.  The
\* members of an object are not kept: no code reads them.
JVal(t, s, n, a) == [t |-> t, s |-> s, n |-> n, a |-> a]
JNull == JVal("null", <<>>, Num(0), <<>>)
JBool(b) == JVal(IF b THEN "true" ELSE "false", <<>>, Num(0), <<>>)
JString(s) == JVal("string", s, Num(0), <<>>)
JNumber(n) == JVal("number", <<>>, n, <<>>)
JObject == JVal("object", <<>>, Num(0), <<>>)
JArray(a) == JVal("array", <<>>, Num(0), a)

\* JavaScript truthiness of a parsed value (the left operand of || [])
Truthy(v) ==
    CASE v.t = "null" -> FALSE
      [] v.t = "false" -> FALSE
      [] v.t = "true" -> TRUE
      [] v.t = "string" -> v.s # <<>>
      [] v.t = "number" -> v.n.num # 0
      [] OTHER -> TRUE

\* A parse step: the value read and the index after it, or a SyntaxError
Fail == [ok |-> FALSE, v |-> JNull, next |-> 0]
Ok(v, next) == [ok |-> TRUE, v |-> v, next |-> next]

RECURSIVE SkipWs(_, _)
SkipWs(s, i) == IF i <= Len(s) /\ IsSpace(s[i]) THEN SkipWs(s, i + 1) ELSE i

\* index of the double quote closing the string whose text starts at j, 0 if
\* there is none before a character a JSON string may not hold (escape
\* sequences use the backslash, which the model's texts do not contain)
RECURSIVE StringEnd(_, _)
StringEnd(s, j) ==
    IF j > Len(s) THEN 0
    ELSE IF s[j] = "\"" THEN j
    ELSE IF s[j] \in {"\n", "\t", "\r", "\\"} THEN 0
    ELSE StringEnd(s, j + 1)

MatchAt(s, i, lit) ==
    i + Len(lit) - 1 <= Len(s) /\ SubSeq(s, i, i + Len(lit) - 1) = lit

\* JSON number at i: -? (0 | [1-9][0-9]*) (. [0-9]+)?
ParseNumber(s, i) ==
    LET i1 == IF s[i] = "-" THEN i + 1 ELSE i
        i2 == IF i1 <= Len(s) /\ s[i1] = "0" THEN i1 + 1 ELSE DigitsEnd(s, i1)
        hasFrac == i2 <= Len(s) /\ s[i2] = "."
        i3 == IF hasFrac THEN DigitsEnd(s, i2 + 1) ELSE i2
        sign == IF s[i] = "-" THEN -1 ELSE 1
        ip == SubSeq(s, i1, i2 - 1)
        fp == SubSeq(s, i2 + 1, i3 - 1)
    IN  IF i2 = i1 \/ (hasFrac /\ i3 = i2 + 1) THEN Fail
        ELSE Ok(JNumber(Reduce(sign * (DigitsVal(ip) * Pow10(Len(fp)) + DigitsVal(fp)),
                               Pow10(Len(fp)))), i3)

RECURSIVE ParseValue(_, _)
RECURSIVE ParseElements(_, _, _)
RECURSIVE ParseMembers(_, _)

\* the JSON value that starts at index i
ParseValue(s, i) ==
    IF i > Len(s) THEN Fail
    ELSE CASE s[i] = "\"" ->
                LET j == StringEnd(s, i + 1)
                IN  IF j = 0 THEN Fail ELSE Ok(JString(SubSeq(s, i + 1, j - 1)), j + 1)
           [] s[i] = "[" ->
                LET k == SkipWs(s, i + 1)
                IN  IF k <= Len(s) /\ s[k] = "]" THEN Ok(JArray(<<>>), k + 1)
                    ELSE ParseElements(s, k, <<>>)
           [] s[i] = "{" ->
                LET k == SkipWs(s, i + 1)
                IN  IF k <= Len(s) /\ s[k] = "}" THEN Ok(JObject, k + 1)
                    ELSE ParseMembers(s, k)
           [] s[i] = "-" \/ s[i] \in Digits -> ParseNumber(s, i)
           [] MatchAt(s, i, <<"t", "r", "u", "e">>) -> Ok(JBool(TRUE), i + 4)
           [] MatchAt(s, i, <<"f", "a", "l", "s", "e">>) -> Ok(JBool(FALSE), i + 5)
           [] MatchAt(s, i, <<"n", "u", "l", "l">>) -> Ok(JNull, i + 4)
           [] OTHER -> Fail

\* the elements of an array from index i on, acc being those already read
ParseElements(s, i, acc) ==
    LET r == ParseValue(s, i)
        k == SkipWs(s, r.next)
    IN  IF ~r.ok \/ k > Len(s) THEN Fail
        ELSE IF s[k] = "," THEN ParseElements(s, SkipWs(s, k + 1), Append(acc, r.v))
        ELSE IF s[k] = "]" THEN Ok(JArray(Append(acc, r.v)), k + 1)
        ELSE Fail

\* the members "key": value of an object from index i on
ParseMembers(s, i) ==
    LET j == IF i <= Len(s) /\ s[i] = "\"" THEN StringEnd(s, i + 1) ELSE 0
        c == SkipWs(s, j + 1)
        r == IF j # 0 /\ c <= Len(s) /\ s[c] = ":"
             THEN ParseValue(s, SkipWs(s, c + 1)) ELSE Fail
        k == SkipWs(s, r.next)
    IN  IF ~r.ok \/ k > Len(s) THEN Fail
        ELSE IF s[k] = "," THEN ParseMembers(s, SkipWs(s, k + 1))
        ELSE IF s[k] = "}" THEN Ok(JObject, k + 1)
        ELSE Fail

\* JSON.parse(text): one value with white space around it, else a SyntaxError
JSONparse(s) ==
    LET r == ParseValue(s, SkipWs(s, 1))
    IN  IF r.ok /\ SkipWs(s, r.next) > Len(s) THEN r ELSE Fail

\* tryParseJSON: [] for a falsy text and for a SyntaxError, else whatever
\* JSON.parse returns
tryParseJSON(str) ==
    IF ~TruthyStr(str) THEN JArray(<<>>)
    ELSE LET r == JSONparse(replaceQuotes(str))
         IN  IF r.ok THEN r.v ELSE JArray(<<>>)

\* tryParseJSON(post.hashtags) || []
hashtagsOf(str) ==
    LET v == tryParseJSON(str) IN IF Truthy(v) THEN v ELSE JArray(<<>>)

-----------------------------------------------------------------------------
(* new Date(...).toLocaleDateString('de-DE', ...) *)

InvalidDate == <<"I", "n", "v", "a", "l", "i", "d", " ", "D", "a", "t", "e">>

TwoDigits(n) == <<DigitChar(n \div 10), DigitChar(n % 10)>>
FourDigits(n) ==
    <<DigitChar(n \div 1000), DigitChar((n \div 100) % 10),
      DigitChar((n \div 10) % 10), DigitChar(n % 10)>>

\* new Date(text) for the ISO date-only form YYYY-MM-DD, which is midnight
\* UTC of that day; a text holding no digit is no date.  (The model's date
\* texts are of these two kinds, with a day every month has: other forms are
\* parsed as the engine sees fit.)
DateParse(s) ==
    IF /\ Len(s) = 10
       /\ s[5] = "-" /\ s[8] = "-"
       /\ \A i \in {1, 2, 3, 4, 6, 7, 9, 10} : s[i] \in Digits
       /\ DigitsVal(SubSeq(s, 6, 7)) \in 1..12
       /\ DigitsVal(SubSeq(s, 9, 10)) \in 1..31
    THEN [valid |-> TRUE, year |-> DigitsVal(SubSeq(s, 1, 4)),
          month |-> DigitsVal(SubSeq(s, 6, 7)), day |-> DigitsVal(SubSeq(s, 9, 10))]
    ELSE [valid |-> FALSE, year |-> 0, month |-> 0, day |-> 0]

\* toLocaleDateString('de-DE', {day, month: '2-digit', year: 'numeric', hour,
\* minute: '2-digit'}) shown for a host in the UTC zone: DD.MM.YYYY, 00:00; an
\* invalid Date formats as the text Invalid Date
formatDate(s) ==
    LET d == DateParse(s)
    IN  IF d.valid
        THEN TwoDigits(d.day) \o <<".">> \o TwoDigits(d.month) \o <<".">>
             \o FourDigits(d.year) \o <<",", " ", "0", "0", ":", "0", "0">>
        ELSE InvalidDate

-----------------------------------------------------------------------------
(* Rows and Posts *)

\* RawInstagramPost: every column is text or absent (photos, which only the
\* rendering reads, is left out)
Row(date, desc, tags, likes, comments) ==
    [date_posted |-> date, description |-> desc, hashtags |-> tags,
     likes |-> likes, num_comments |-> comments, url |-> Undefined]

\* .filter(post => post.date_posted)
keepRow(post) == TruthyStr(post.date_posted)

\* .map(post => ({...post, date_posted: ..., hashtags: ..., ...})): InstagramPost
processRow(post) ==
    [date_posted |-> formatDate(post.date_posted),
     description |-> post.description,
     hashtags |-> hashtagsOf(post.hashtags),
     clean_description |-> cleanDescription(descriptionOrEmpty(post.description)),
     url |-> post.url,
     likes |-> coerceCount(post.likes),
     num_comments |-> coerceCount(post.num_comments)]

-----------------------------------------------------------------------------
(* Inputs *)

GoodDate == <<"2", "0", "2", "4", "-", "0", "1", "-", "0", "5">>
BadDate == <<"a", "b">>
TagsAb == <<"[", "'", "a", "b", "'", "]">>

\* date_posted, description "Ab #c", hashtags "['ab']", likes "5", num_comments ""
RowFull == Row(GoodDate, <<"A", "b", " ", "#", "c">>, TagsAb, <<"5">>, <<>>)
\* a row that has the date column only
RowBare == Row(GoodDate, Undefined, Undefined, Undefined, Undefined)
\* a row whose hashtags column is the JSON number 5
RowOddTags == Row(GoodDate, <<"b">>, <<"5">>, <<"4">>, <<"0">>)
\* a row whose date column is empty
RowNoDate == Row(<<>>, <<"b">>, TagsAb, <<"1">>, <<"1">>)
\* a row that has no date column
RowAbsentDate == Row(Undefined, <<"b">>, TagsAb, <<"1">>, <<"1">>)
\* a row whose date column is no date
RowBadDate == Row(BadDate, <<"b">>, TagsAb, <<"1">>, <<"1">>)

SeqsUpTo(S, n) == UNION {[1..k -> S] : k \in 0..n}

\* Spec: the rows of the files a user may select
RawRows == {RowFull, RowBare, RowOddTags}
Files == SeqsUpTo(RawRows, MaxRows)

\* Spec: the url column of the rows of the file of load l tells the files apart
LoadUrl(l) == <<"u", DigitChar(l)>>
FileOf(rows, l) == [i \in 1..Len(rows) |-> [rows[i] EXCEPT !.url = LoadUrl(l)]]

\* what the user may type into the search box
Queries == {<<>>, <<"A", "B">>, <<"a", "#", "b">>}

\* SpecLoad: descriptions, every text up to MaxDescLen
DescChars == {"a", " ", "#", "!"}
DescTexts == SeqsUpTo(DescChars, MaxDescLen) \cup {Undefined}

\* SpecLoad: likes and num_comments, every text up to MaxNumLen
NumChars == {"0", "4", "-", ".", " ", "a"}
NumTexts == SeqsUpTo(NumChars, MaxNumLen) \cup {Undefined}

\* SpecLoad: hashtags: absent, empty, an array of strings, malformed text,
\* and texts that are JSON but no array of strings
TagTexts ==
    {Undefined, <<>>, TagsAb,
     <<"[", "'", "A", "b", "'", ",", " ", "'", "c", "'", "]">>,
     <<"[", "]">>,
     <<"a", "b">>,
     <<"[", "'", "a", "'">>,
     <<"5">>, <<"0">>,
     <<"'", "a", "b", "'">>, <<"'", "'">>,
     <<"{", "}">>, <<"{", "'", "a", "'", ":", "1", "}">>,
     <<"n", "u", "l", "l">>, <<"f", "a", "l", "s", "e">>, <<"t", "r", "u", "e">>,
     <<"[", "1", "]">>, <<"[", "'", "a", "b", "'", ",", "1", "]">>}

DateRows == {RowFull, RowNoDate, RowAbsentDate, RowBadDate}

\* SpecLoad: the file that is read: one row with one column drawn from a wide
\* set, or up to MaxRows rows that differ in their date column
LoadFiles ==
    {<<Row(GoodDate, d, TagsAb, Undefined, Undefined)>> : d \in DescTexts}
        \cup {<<Row(GoodDate, Undefined, Undefined, n, Undefined)>> : n \in NumTexts}
        \cup {<<Row(GoodDate, Undefined, Undefined, Undefined, n)>> : n \in NumTexts}
        \cup {<<Row(GoodDate, <<"A", "b">>, g, Undefined, Undefined)>> : g \in TagTexts}
        \cup SeqsUpTo(DateRows, MaxRows)

AllRows ==
    {[r EXCEPT !.url = LoadUrl(l)] : r \in RawRows, l \in 1..MaxLoads}
        \cup UNION {{f[i] : i \in 1..Len(f)} : f \in LoadFiles}

\* processRow tabulated over the rows of the model's files
processedRow == [post \in AllRows |-> processRow(post)]

\* results.data.filter(...).map(...)
RECURSIVE processData(_)
processData(data) ==
    IF data = <<>> THEN <<>>
    ELSE IF keepRow(Head(data)) THEN <<processedRow[Head(data)]>> \o processData(Tail(data))
    ELSE processData(Tail(data))

-----------------------------------------------------------------------------
(* searchPosts *)

\* post.clean_description.toLowerCase().includes(searchTerm.toLowerCase())
textMatch_NoFold(post, term) == includes(post.clean_description, term)

textMatch(post, term) ==
    includes(toLowerCase(post.clean_description), toLowerCase(term))

\* tags.some(tag => tag.toLowerCase().includes(needle)) from element i on:
\* "true" at the first tag that matches, "throw" (TypeError) at an element
\* that is no string and so has no toLowerCase, "false" past the end
RECURSIVE someTag(_, _, _)
someTag(tags, needle, i) ==
    IF i > Len(tags) THEN "false"
    ELSE IF tags[i].t # "string" THEN "throw"
    ELSE IF includes(toLowerCase(tags[i].s), needle) THEN "true"
    ELSE someTag(tags, needle, i + 1)

\* post.hashtags.some(...): a value that is no array has no method some, and
\* the call throws a TypeError
tagMatch(post, term) ==
    IF post.hashtags.t # "array" THEN "throw"
    ELSE someTag(post.hashtags.a, replaceHash(toLowerCase(term)), 1)

\* the callback of posts.filter
matchPost(post, term, hashtagMode) ==
    IF hashtagMode THEN tagMatch(post, term)
    ELSE IF textMatch(post, term) THEN "true" ELSE "false"

\* posts.filter(...): the retained Posts in order; an exception thrown by the
\* callback ends the filter
RECURSIVE filterPosts(_, _, _)
filterPosts(ps, term, hashtagMode) ==
    IF ps = <<>> THEN [threw |-> FALSE, results |-> <<>>]
    ELSE LET m == matchPost(Head(ps), term, hashtagMode)
             rest == filterPosts(Tail(ps), term, hashtagMode)
         IN  IF m = "throw" \/ rest.threw THEN [threw |-> TRUE, results |-> <<>>]
             ELSE IF m = "true" THEN [threw |-> FALSE, results |-> <<Head(ps)>> \o rest.results]
             ELSE rest

-----------------------------------------------------------------------------
(* The component *)

Init ==
    /\ posts = <<>>
    /\ searchTerm = <<>>
    /\ isHashtagSearch = FALSE
    /\ searchResults = <<>>
    /\ inflight = {}
    /\ loads = 0
    /\ lastOp = "init"
    /\ completed = <<>>
    /\ source = <<>>

\* handleFileUpload with a file chosen: Papa.parse starts reading it
handleFileUpload ==
    /\ loads < MaxLoads
    /\ loads' = loads + 1
    /\ inflight' = inflight \cup {loads + 1}
    /\ lastOp' = "select"
    /\ UNCHANGED <<posts, searchTerm, isHashtagSearch, searchResults, completed, source>>

\* handleFileUpload with no file chosen (event.target.files is empty)
handleFileUploadNoFile ==
    /\ lastOp' = "select"
    /\ UNCHANGED <<posts, searchTerm, isHashtagSearch, searchResults, inflight,
                   loads, completed, source>>

complete_Merge(l, results) ==
    /\ l \in inflight
    /\ posts' = posts \o processData(results.data)
    /\ searchResults' = searchResults \o processData(results.data)
    /\ inflight' = inflight \ {l}
    /\ lastOp' = IF results.errors THEN "complete_errors" ELSE "complete"
    /\ completed' = Append(completed, l)
    /\ UNCHANGED <<searchTerm, isHashtagSearch, loads, source>>

complete_KeepResults(l, results) ==
    /\ l \in inflight
    /\ posts' = processData(results.data)
    /\ inflight' = inflight \ {l}
    /\ lastOp' = IF results.errors THEN "complete_errors" ELSE "complete"
    /\ completed' = Append(completed, l)
    /\ UNCHANGED <<searchTerm, isHashtagSearch, searchResults, loads, source>>

\* the complete callback of load l.  results is Papa's ParseResult: data, the
\* rows it could read, and errors, whether it met malformed text on the way
\* (results.errors is not empty); the callback reads results.data only.
complete(l, results) ==
    /\ l \in inflight
    /\ posts' = processData(results.data)
    /\ searchResults' = processData(results.data)
    /\ inflight' = inflight \ {l}
    /\ lastOp' = IF results.errors THEN "complete_errors" ELSE "complete"
    /\ completed' = Append(completed, l)
    /\ UNCHANGED <<searchTerm, isHashtagSearch, loads, source>>

\* the error callback of load l (the file could not be read): console.error
error(l) ==
    /\ l \in inflight
    /\ inflight' = inflight \ {l}
    /\ lastOp' = "error"
    /\ UNCHANGED <<posts, searchTerm, isHashtagSearch, searchResults, loads,
                   completed, source>>

\* onChange of the search box
setSearchTerm(q) ==
    /\ searchTerm' = q
    /\ lastOp' = "edit"
    /\ UNCHANGED <<posts, isHashtagSearch, searchResults, inflight, loads,
                   completed, source>>

\* onChange of the checkbox
setIsHashtagSearch(b) ==
    /\ isHashtagSearch' = b
    /\ lastOp' = "edit"
    /\ UNCHANGED <<posts, searchTerm, searchResults, inflight, loads, completed, source>>

searchPosts_NoShortcut ==
    LET r == filterPosts(posts, searchTerm, isHashtagSearch)
    IN  /\ searchResults' = IF r.threw THEN searchResults ELSE r.results
        /\ lastOp' = IF r.threw THEN "search_throw" ELSE "search"
        /\ UNCHANGED <<posts, searchTerm, isHashtagSearch, inflight, loads,
                       completed, source>>

\* onClick of the button.  An exception leaves the handler before
\* setSearchResults, so the list stays as it was.
searchPosts ==
    LET r == IF searchTerm = <<>> THEN [threw |-> FALSE, results |-> posts]
             ELSE filterPosts(posts, searchTerm, isHashtagSearch)
    IN  /\ searchResults' = IF r.threw THEN searchResults ELSE r.results
        /\ lastOp' = IF r.threw THEN "search_throw" ELSE "search"
        /\ UNCHANGED <<posts, searchTerm, isHashtagSearch, inflight, loads,
                       completed, source>>

Next ==
    \/ handleFileUpload
    \/ handleFileUploadNoFile
    \/ \E l \in inflight, rows \in Files, e \in BOOLEAN :
            complete(l, [data |-> FileOf(rows, l), errors |-> e])
    \/ \E l \in inflight : error(l)
    \/ \E q \in Queries : setSearchTerm(q)
    \/ \E b \in BOOLEAN : setIsHashtagSearch(b)
    \/ searchPosts

Spec == Init /\ [][Next]_vars

\* One session with one file: the file source is being read; then the user
\* searches what it gave
InitLoad ==
    /\ posts = <<>>
    /\ searchTerm = <<>>
    /\ isHashtagSearch = FALSE
    /\ searchResults = <<>>
    /\ inflight = {1}
    /\ loads = 1
    /\ lastOp = "select"
    /\ completed = <<>>
    /\ source \in LoadFiles

NextLoad ==
    \/ complete(1, [data |-> source, errors |-> FALSE])
    \/ \E q \in Queries : setSearchTerm(q)
    \/ \E b \in BOOLEAN : setIsHashtagSearch(b)
    \/ searchPosts

SpecLoad == InitLoad /\ [][NextLoad]_vars

-----------------------------------------------------------------------------
(* Properties *)

Min(S) == CHOOSE x \in S : \A y \in S : x <= y
Max(S) == CHOOSE x \in S : \A y \in S : x >= y

\* the load whose complete callback fired last, 0 before the first
LastLoad == IF completed = <<>> THEN 0 ELSE completed[Len(completed)]

Loaded == completed # <<>>

\* a is b with some elements left out
RECURSIVE IsSubseq(_, _)
IsSubseq(a, b) ==
    IF a = <<>> THEN TRUE
    ELSE IF b = <<>> THEN FALSE
    ELSE IF Head(a) = Head(b) THEN IsSubseq(Tail(a), Tail(b))
    ELSE IsSubseq(a, Tail(b))

\* the rows of the file read that the callback keeps, in order
KeptRows == SelectSeq(source, keepRow)

HasParseableDate(row) == TruthyStr(row.date_posted) /\ DateParse(row.date_posted).valid

\* C1: the dataset a successful load produces is the rows whose date_posted
\* is non-empty and parseable, normalised, in source order; a row with an
\* empty, absent or unparseable date never becomes a Post.
C1_OnlyParseableDatesLoaded ==
    lastOp = "complete" =>
        LET dated == SelectSeq(source, HasParseableDate)
        IN  posts = [i \in 1..Len(dated) |-> processRow(dated[i])]

\* C2: a load that fails with a source-format error leaves posts and
\* searchResults as they were before it: the step in which a load ends with
\* the error callback, or with malformed text reported in results.errors,
\* changes neither.
C2_FailedLoadChangesNothing ==
    [][(inflight' # inflight /\ lastOp' \in {"error", "complete_errors"})
            => (posts' = posts /\ searchResults' = searchResults)]_vars

IsStringArray(v) ==
    v.t = "array" /\ \A i \in 1..Len(v.a) : v.a[i].t = "string"

\* C3: the hashtags of every Post of the dataset is a sequence of strings,
\* whatever the raw hashtags text, and no search over the dataset fails.
C3_HashtagsIsStringArray ==
    /\ \A i \in 1..Len(posts) : IsStringArray(posts[i].hashtags)
    /\ lastOp # "search_throw"

StripLeadingHash(q) == IF q # <<>> /\ Head(q) = "#" THEN Tail(q) ELSE q

HasTagContaining(post, needle) ==
    /\ post.hashtags.t = "array"
    /\ \E i \in 1..Len(post.hashtags.a) :
            /\ post.hashtags.a[i].t = "string"
            /\ includes(toLowerCase(post.hashtags.a[i].s), needle)

\* C4: the list a tag-mode search sets is the Posts, in dataset order, with a
\* hashtag whose lower-cased text contains the lower-cased query with a
\* leading '#' removed; a '#' elsewhere in the query is kept for the match.
C4_TagSearchStripsLeadingHashOnly ==
    (lastOp = "search" /\ isHashtagSearch /\ searchTerm # <<>>) =>
        searchResults =
            SelectSeq(posts, LAMBDA p :
                HasTagContaining(p, StripLeadingHash(toLowerCase(searchTerm))))

\* s contains q, letter case ignored: q lies in s at some offset, each
\* character equal to its counterpart once both are folded
ContainsFolded(s, q) ==
    \E off \in 0..(Len(s) - Len(q)) :
        \A k \in 1..Len(q) : LowerChar(s[off + k]) = LowerChar(q[k])

PatternAt(d) ==
    {k \in 1..(Len(d) - 2) : IsSpace(d[k]) /\ d[k + 1] = "#" /\ IsWord(d[k + 2])}

\* d without the white space at its ends
Stripped(d) ==
    LET inked == {k \in 1..Len(d) : ~IsSpace(d[k])}
    IN  IF inked = {} THEN <<>> ELSE SubSeq(d, Min(inked), Max(inked))

ExpectedClean(d) ==
    IF ~TruthyStr(d) THEN <<>>
    ELSE IF PatternAt(d) = {} THEN Stripped(d)
    ELSE Stripped(SubSeq(d, 1, Min(PatternAt(d)) - 1))

\* C7: the cleanDescription of every Post holds no occurrence of the
\* extraction pattern: it is the text before the first occurrence in the
\* description, trimmed, the whole description trimmed when there is none,
\* and empty for an absent or empty description.
C7_CleanDescription ==
    \A i \in 1..Len(posts) :
        /\ PatternAt(posts[i].clean_description) = {}
        /\ posts[i].clean_description = ExpectedClean(posts[i].description)

\* a Post whose description has text, then white space, then the pattern
C7_Witness ==
    /\ Len(posts) = 1
    /\ TruthyStr(posts[1].description)
    /\ PatternAt(posts[1].description) # {}
    /\ posts[1].clean_description # <<>>
    /\ Len(posts[1].clean_description) < Min(PatternAt(posts[1].description)) - 1

IsNonNegativeInteger(v) == ~v.nan /\ v.den = 1 /\ v.num >= 0

\* C8: likes and num_comments of every Post are non-negative integers, for
\* every raw text of the two columns.
C8_CountsAreNonNegativeIntegers ==
    \A i \in 1..Len(posts) :
        IsNonNegativeInteger(posts[i].likes) /\ IsNonNegativeInteger(posts[i].num_comments)

\* the count the callback is to give for the raw text x
CountFor(x, v) ==
    /\ ~v.nan
    /\ v.den >= 1
    /\ Number(x).nan => v = Num(0)
    /\ ~Number(x).nan => v = Number(x)

\* C8 as amended: likes and num_comments of every Post are numbers, never
\* NaN: 0 for an absent, empty or non-numeric text, and the value of a numeric
\* text as it stands, negative and fractional values included.
C8_CountsAreNumbers ==
    Loaded =>
        /\ Len(posts) = Len(KeptRows)
        /\ \A i \in 1..Len(posts) :
                /\ CountFor(KeptRows[i].likes, posts[i].likes)
                /\ CountFor(KeptRows[i].num_comments, posts[i].num_comments)

\* a Post whose likes is negative and fractional
C8_Witness ==
    /\ Len(posts) = 1
    /\ posts[1].likes.num < 0 /\ posts[1].likes.den > 1

\* C9: a completed load replaces dataset and result list together: at any
\* moment every Post of either comes from the file of the load whose
\* complete callback fired last, however the callbacks of overlapping loads
\* interleave with searches and edits, and both are empty before the first.
C9_LoadReplacesBoth ==
    /\ ~Loaded => (posts = <<>> /\ searchResults = <<>>)
    /\ \A i \in 1..Len(posts) : posts[i].url = LoadUrl(LastLoad)
    /\ \A i \in 1..Len(searchResults) : searchResults[i].url = LoadUrl(LastLoad)

\* two loads overlapped and the one started first completed last, over a
\* dataset the other had written
C9_Witness ==
    /\ completed = <<2, 1>>
    /\ lastOp = "complete"
    /\ Len(posts) = 2

\* C10: the result list is an order-preserving subsequence of the dataset
\* held at that moment, and the whole dataset right after a load completes.
C10_ResultsWithinDataset ==
    /\ IsSubseq(searchResults, posts)
    /\ lastOp \in {"complete", "complete_errors"} => searchResults = posts

\* a load completed while a query no Post of the new dataset matches stood
\* in the search box, in tag mode, after an earlier load
C10_Witness ==
    /\ lastOp = "complete"
    /\ Len(completed) = 2
    /\ searchTerm = <<"A", "B">> /\ isHashtagSearch
    /\ Len(posts) = 2
    /\ \A i \in 1..Len(posts) : posts[i].hashtags = JArray(<<>>)

====
